---- MODULE Spec2Model ----
(***************************************************************************)
(* The chat client of src/src/app/chat/page.tsx (component ChatPage).      *)
(*                                                                         *)
(* State: the four useState cells (messages, input, isLoading, isTyping),  *)
(* the /chat requests that axios.post has issued and that have neither     *)
(* resolved nor rejected (inflight), and the client clock read by          *)
(* Date.now().  One action per handler: the onChange handler of the input  *)
(* field, sendMessage up to its await, the continuation of sendMessage     *)
(* after the await (try body or catch body, then finally), startNewChat,   *)
(* and the passing of time.                                                *)
(*                                                                         *)
(* The handlers are modelled as the code defines them.  The `disabled`     *)
(* attributes of the input field and of the submit button (lines 298 and   *)
(* 303) are rendering hints: the submit handler keeps its own guard at     *)
(* line 33 and can be invoked with any component state (form.requestSubmit *)
(* or a dispatched event), so the actions are not guarded by them.         *)
(*                                                                         *)
(* React commits the state updates of an event handler before the next     *)
(* event is dispatched, so each handler reads the state its predecessor    *)
(* left; the setMessages calls pass updaters (prev => ...), which apply to *)
(* the transcript current at the time of the call.                         *)
(*                                                                         *)
(* nCalls, nCompleted, nUserAppends and nAssistantAppends count what the   *)
(* steps did to the wire and to the transcript; `last` records the step    *)
(* just taken.  None of them is read by an action's guard, except that     *)
(* nCalls bounds the run.                                                  *)
(***************************************************************************)
EXTENDS Integers, Sequences, FiniteSets, TLC

VARIABLES messages, input, isLoading, isTyping, inflight, now,
          nCalls, nCompleted, nUserAppends, nAssistantAppends, last

vars == <<messages, input, isLoading, isTyping, inflight, now,
          nCalls, nCompleted, nUserAppends, nAssistantAppends, last>>

(* ------------------------------ bounds --------------------------------- *)

\* number of /chat calls issued in one run
MaxCalls == 2
\* number of clock ticks in one run
MaxClock == 1

(* ------------------------------ strings -------------------------------- *)

\* A string is a sequence of one-character strings.

\* the characters String.prototype.trim removes, among those used here
Whitespace == {" "}

\* The texts the user types: empty, whitespace only, a word, a padded word.
Inputs == {<<>>, <<" ">>, <<"a">>, <<" ", "a", " ">>}

RECURSIVE TrimStart(_)
TrimStart(s) ==
    IF s # <<>> /\ Head(s) \in Whitespace THEN TrimStart(Tail(s)) ELSE s

RECURSIVE TrimEnd(_)
TrimEnd(s) ==
    IF s # <<>> /\ s[Len(s)] \in Whitespace
    THEN TrimEnd(SubSeq(s, 1, Len(s) - 1))
    ELSE s

\* input.trim()
Trim(s) == TrimEnd(TrimStart(s))

\* JavaScript truthiness of a string: the empty string is falsy
Truthy(s) == s # <<>>

Digit(d) == CASE d = 0 -> "0" [] d = 1 -> "1" [] d = 2 -> "2" [] d = 3 -> "3"
              [] d = 4 -> "4" [] d = 5 -> "5" [] d = 6 -> "6" [] d = 7 -> "7"
              [] d = 8 -> "8" [] d = 9 -> "9"

\* Number.prototype.toString() of a non-negative integer: its decimal digits
RECURSIVE NumberToString(_)
NumberToString(n) ==
    IF n < 10
    THEN <<Digit(n)>>
    ELSE Append(NumberToString(n \div 10), Digit(n % 10))

\* the text of the catch block
Fallback ==
    <<"S","o","r","r","y",","," ","I","'","m"," ","h","a","v","i","n","g"," ",
      "t","r","o","u","b","l","e"," ","c","o","n","n","e","c","t","i","n","g",
      "."," ","P","l","e","a","s","e"," ","t","r","y"," ","a","g","a","i","n",
      " ","l","a","t","e","r","." >>

(* --------------------------- the /chat call ----------------------------- *)

\* the request body sendMessage puts on the wire
ChatRequest(text) == [message |-> text, agent_type |-> "basic"]

\* `response` texts the endpoint can send
Replies == {<<"o", "k">>, <<>>}

\* response.data of a resolved call: the envelope, or a body that is no object
NullData == [tag |-> "null", success |-> FALSE, response |-> <<>>]

Envelopes == [tag : {"object"}, success : BOOLEAN, response : Replies]

\* How an issued call ends.  axios resolves on a 2xx status whatever the body
\* says and rejects on a network error, a timeout or a non-2xx status.
Outcomes ==
    [kind : {"resolved"}, data : Envelopes \cup {NullData}]
        \cup {[kind |-> "rejected", data |-> NullData]}

NoOutcome == [kind |-> "none", data |-> NullData]

(* ------------------------------ messages -------------------------------- *)

\* mutant: the transcript keeps the trimmed text
UserMessageTrimmed(text, t) ==
    [id |-> NumberToString(t), content |-> Trim(text), role |-> "user",
     timestamp |-> t]

\* const userMessage: Message = {...}
UserMessage(text, t) ==
    [id |-> NumberToString(t), content |-> text, role |-> "user",
     timestamp |-> t]

\* mutant: the reply is read from a field the envelope does not have
BotMessageNoContent(data, t) ==
    [id |-> NumberToString(t + 1), content |-> <<>>,
     role |-> "assistant", timestamp |-> t]

\* const botMessage: Message = {...}
BotMessage(data, t) ==
    [id |-> NumberToString(t + 1), content |-> data.response,
     role |-> "assistant", timestamp |-> t]

\* const errorMessage: Message = {...}
ErrorMessage(t) ==
    [id |-> NumberToString(t + 1), content |-> Fallback,
     role |-> "assistant", timestamp |-> t]

\* mutant: the guard forgets the busy flag
RefusedNoBusy(text, loading) == ~Truthy(Trim(text))

\* mutant: the guard tests the raw text
RefusedNoTrim(text, loading) == ~Truthy(text) \/ loading

\* the early return of sendMessage: if (!input.trim() || isLoading) return
Refused(text, loading) == ~Truthy(Trim(text)) \/ loading

\* Whether control leaves the try block for the catch block: the awaited call
\* rejected, or reading response.data.response threw because response.data is
\* no object.
Throws(o) == o.kind = "rejected" \/ o.data.tag = "null"

\* the Message the continuation of sendMessage appends for outcome o
AssistantMessage(o, t) ==
    IF Throws(o) THEN ErrorMessage(t) ELSE BotMessage(o.data, t)

\* mutant: a failure takes the optimistic user Message back
AfterResponseRollback(msgs, o, t) ==
    IF Throws(o)
    THEN Append(SubSeq(msgs, 1, Len(msgs) - 1), ErrorMessage(t))
    ELSE Append(msgs, BotMessage(o.data, t))

\* mutant: a failure is swallowed without a Message
AfterResponseSilent(msgs, o, t) ==
    IF Throws(o) THEN msgs ELSE Append(msgs, BotMessage(o.data, t))

\* the updater the continuation hands to setMessages:
\* prev => [...prev, botMessage] or prev => [...prev, errorMessage]
AfterResponse(msgs, o, t) == Append(msgs, AssistantMessage(o, t))

\* the number of entries of role r that `new` holds beyond the end of `old`
Appended(r, old, new) ==
    Cardinality({k \in (Len(old) + 1)..Len(new) : new[k].role = r})

RemoveAt(s, i) == SubSeq(s, 1, i - 1) \o SubSeq(s, i + 1, Len(s))

\* what the step just taken was: the handler, and the state it started from
Step(op, o) ==
    [op |-> op, wasLoading |-> isLoading, len |-> Len(messages), outcome |-> o]

(* ------------------------------- actions -------------------------------- *)

Init ==
    /\ messages = <<>>
    /\ input = <<>>
    /\ isLoading = FALSE
    /\ isTyping = FALSE
    /\ inflight = <<>>
    /\ now = 0
    /\ nCalls = 0
    /\ nCompleted = 0
    /\ nUserAppends = 0
    /\ nAssistantAppends = 0
    /\ last = [op |-> "init", wasLoading |-> FALSE, len |-> 0,
               outcome |-> NoOutcome]

\* the ghost counters follow what the step did to the transcript and the wire
Count ==
    /\ nCalls' = nCalls + IF Len(inflight') > Len(inflight) THEN 1 ELSE 0
    /\ nCompleted' = nCompleted + IF Len(inflight') < Len(inflight) THEN 1 ELSE 0
    /\ nUserAppends' = nUserAppends + Appended("user", messages, messages')
    /\ nAssistantAppends' =
           nAssistantAppends + Appended("assistant", messages, messages')

\* onChange={(e) => setInput(e.target.value)}
setInput(v) ==
    /\ input' = v
    /\ UNCHANGED <<messages, isLoading, isTyping, inflight, now>>
    /\ Count
    /\ last' = Step("setInput", NoOutcome)

\* sendMessage, from the submit event to the await of axios.post
sendMessage ==
    /\ IF Refused(input, isLoading)
       THEN UNCHANGED <<messages, input, isLoading, isTyping, inflight>>
       ELSE /\ nCalls < MaxCalls
            /\ messages' = Append(messages, UserMessage(input, now))
            /\ input' = <<>>
            /\ isLoading' = TRUE
            /\ isTyping' = TRUE
            /\ inflight' = Append(inflight, ChatRequest(input))
    /\ UNCHANGED now
    /\ Count
    /\ last' = Step("sendMessage", NoOutcome)

\* mutant: a failed call is issued again
settleRetry(i, o) ==
    /\ i \in DOMAIN inflight
    /\ IF Throws(o)
       THEN /\ inflight' = Append(RemoveAt(inflight, i), inflight[i])
            /\ UNCHANGED <<messages, isTyping, isLoading>>
            /\ nCalls' = nCalls + 1
            /\ nCompleted' = nCompleted + 1
            /\ UNCHANGED <<nUserAppends, nAssistantAppends>>
       ELSE /\ messages' = AfterResponse(messages, o, now)
            /\ isTyping' = FALSE
            /\ isLoading' = FALSE
            /\ inflight' = RemoveAt(inflight, i)
            /\ Count
    /\ UNCHANGED <<input, now>>
    /\ last' = Step("settle", o)

\* mutant: the busy flag is cleared at the end of the try body, not in finally
settleNoFinally(i, o) ==
    /\ i \in DOMAIN inflight
    /\ messages' = AfterResponse(messages, o, now)
    /\ isTyping' = FALSE
    /\ isLoading' = IF Throws(o) THEN isLoading ELSE FALSE
    /\ inflight' = RemoveAt(inflight, i)
    /\ UNCHANGED <<input, now>>
    /\ Count
    /\ last' = Step("settle", o)

\* mutant: the catch body leaves the typing indicator on
settleCatchKeepsTyping(i, o) ==
    /\ i \in DOMAIN inflight
    /\ messages' = AfterResponse(messages, o, now)
    /\ isTyping' = IF Throws(o) THEN isTyping ELSE FALSE
    /\ isLoading' = FALSE
    /\ inflight' = RemoveAt(inflight, i)
    /\ UNCHANGED <<input, now>>
    /\ Count
    /\ last' = Step("settle", o)

\* sendMessage, from the end of the await to its return: the call issued as
\* inflight[i] ends with outcome o; the try body or the catch body runs, then
\* the finally block.
settle(i, o) ==
    /\ i \in DOMAIN inflight
    /\ messages' = AfterResponse(messages, o, now)
    /\ isTyping' = FALSE
    /\ isLoading' = FALSE
    /\ inflight' = RemoveAt(inflight, i)
    /\ UNCHANGED <<input, now>>
    /\ Count
    /\ last' = Step("settle", o)

\* mutant: New Chat is ignored while a request is outstanding
startNewChatWhenIdle ==
    /\ messages' = IF isLoading THEN messages ELSE <<>>
    /\ UNCHANGED <<input, isLoading, isTyping, inflight, now>>
    /\ UNCHANGED <<nCalls, nCompleted, nUserAppends, nAssistantAppends>>
    /\ last' = Step("startNewChat", NoOutcome)

\* mutant: New Chat abandons the outstanding request
startNewChatCancels ==
    /\ messages' = <<>>
    /\ inflight' = <<>>
    /\ isLoading' = FALSE
    /\ isTyping' = FALSE
    /\ UNCHANGED <<input, now>>
    /\ UNCHANGED <<nCalls, nCompleted, nUserAppends, nAssistantAppends>>
    /\ last' = Step("startNewChat", NoOutcome)

\* const startNewChat = () => { setMessages([]) }
startNewChat ==
    /\ messages' = <<>>
    /\ UNCHANGED <<input, isLoading, isTyping, inflight, now>>
    /\ UNCHANGED <<nCalls, nCompleted, nUserAppends, nAssistantAppends>>
    /\ last' = Step("startNewChat", NoOutcome)

\* the client clock advances
Tick ==
    /\ now < MaxClock
    /\ now' = now + 1
    /\ UNCHANGED <<messages, input, isLoading, isTyping, inflight>>
    /\ Count
    /\ last' = Step("Tick", NoOutcome)

Next ==
    \/ \E v \in Inputs : setInput(v)
    \/ sendMessage
    \/ \E i \in DOMAIN inflight : \E o \in Outcomes : settle(i, o)
    \/ startNewChat
    \/ Tick

Spec == Init /\ [][Next]_vars

(* ------------------------------- claims --------------------------------- *)

IsPrefix(s, t) == Len(s) <= Len(t) /\ SubSeq(t, 1, Len(s)) = s

\* the step appended exactly one Message, of role r and content c
AppendsOne(r, c) ==
    /\ Len(messages') = Len(messages) + 1
    /\ IsPrefix(messages, messages')
    /\ messages'[Len(messages')].role = r
    /\ messages'[Len(messages')].content = c

\* the outcome is a response whose envelope says success = b
Envelope(o, b) ==
    o.kind = "resolved" /\ o.data.tag = "object" /\ o.data.success = b

\* C1: in every reachable state at most one /chat request has been issued and
\* has neither resolved nor rejected, and the busy flag is set while it is.
C1_AtMostOneOutstanding ==
    /\ Len(inflight) <= 1
    /\ Len(inflight) = 1 => isLoading

\* a second request was accepted, after the first had completed
C1_Witness ==
    /\ last.op = "sendMessage" /\ ~last.wasLoading
    /\ Len(inflight) = 1
    /\ nCompleted >= 1

\* C2: when the call ends with an envelope of success = false, or is rejected,
\* the step appends exactly one assistant Message with the fallback text and
\* leaves the client idle.
C2_FailureGivesFallback ==
    [][(last'.op = "settle"
          /\ (last'.outcome.kind = "rejected" \/ Envelope(last'.outcome, FALSE)))
        => (AppendsOne("assistant", Fallback) /\ ~isLoading')]_vars

\* C3: when the call ends with an envelope of success = true, the step appends
\* exactly one assistant Message whose content is the envelope's response, and
\* leaves the client idle with the typing indicator off.
C3_SuccessGivesReply ==
    [][(last'.op = "settle" /\ Envelope(last'.outcome, TRUE))
        => /\ AppendsOne("assistant", last'.outcome.data.response)
           /\ ~isLoading'
           /\ ~isTyping']_vars

\* a non-empty reply has just been appended
C3_Witness ==
    /\ last.op = "settle" /\ Envelope(last.outcome, TRUE)
    /\ messages # <<>>
    /\ messages[Len(messages)].content = <<"o", "k">>
    /\ ~isLoading

\* C4: a submit made when the client is idle and the input is non-empty after
\* trimming appends, in that step, exactly one user Message whose content is
\* the input, and the request it issues is on the wire only from that step on.
C4_SubmitAppendsUser ==
    [][(last'.op = "sendMessage" /\ ~isLoading /\ Truthy(Trim(input)))
        => /\ AppendsOne("user", input)
           /\ inflight' = Append(inflight, ChatRequest(input))
           /\ nCompleted' = nCompleted]_vars

\* a padded text has just been submitted and its request is outstanding
C4_Witness ==
    /\ last.op = "sendMessage" /\ ~last.wasLoading
    /\ isLoading
    /\ Len(inflight) = 1
    /\ messages # <<>>
    /\ messages[Len(messages)].role = "user"
    /\ messages[Len(messages)].content = <<" ", "a", " ">>

\* C5: a submit made while a request is outstanding leaves the transcript and
\* the wire as they were, whatever the input holds.
C5_BusySubmitIsNoOp ==
    [][(last'.op = "sendMessage" /\ isLoading)
        => /\ messages' = messages
           /\ inflight' = inflight
           /\ nCalls' = nCalls]_vars

\* a non-blank text has just been submitted while a request was outstanding
C5_Witness ==
    /\ last.op = "sendMessage" /\ last.wasLoading
    /\ isLoading
    /\ Truthy(Trim(input))

\* C6: a submit of an empty or whitespace-only input leaves the transcript,
\* the wire and the busy flag as they were.
C6_BlankSubmitIsNoOp ==
    [][(last'.op = "sendMessage" /\ ~Truthy(Trim(input)))
        => /\ messages' = messages
           /\ inflight' = inflight
           /\ nCalls' = nCalls
           /\ isLoading' = isLoading]_vars

\* a whitespace-only text has just been submitted by an idle client
C6_Witness ==
    /\ last.op = "sendMessage" /\ ~last.wasLoading
    /\ ~isLoading
    /\ input = <<" ">>

\* C7: New Chat leaves the transcript empty, whatever it held and whether or
\* not a request is outstanding.
C7_NewChatClears ==
    [][last'.op = "startNewChat" => messages' = <<>>]_vars

\* New Chat has just cleared three Messages while a request was outstanding
C7_Witness ==
    /\ last.op = "startNewChat" /\ last.wasLoading
    /\ last.len >= 3
    /\ messages = <<>>

\* C8: across every step other than New Chat the transcript before the step
\* is a prefix of the transcript after it.
C8_AppendOnly ==
    [][last'.op # "startNewChat" => IsPrefix(messages, messages')]_vars

\* a request has just failed and the user Message it answers is still there
C8_Witness ==
    /\ last.op = "settle" /\ last.outcome.kind = "rejected"
    /\ Len(messages) >= 2
    /\ messages[Len(messages) - 1].role = "user"
    /\ messages[Len(messages) - 1].content = <<" ", "a", " ">>
    /\ messages[Len(messages)].content = Fallback

\* C9: the number of assistant Messages appended equals the number of
\* completed requests, and every issued request is completed or outstanding.
C9_OneAssistantPerCompletion ==
    /\ nAssistantAppends = nCompleted
    /\ nCompleted + Len(inflight) = nCalls

\* two requests have completed, one with a reply and one with the fallback
C9_Witness ==
    /\ nCompleted = 2
    /\ Len(messages) = 4
    /\ messages[2].content = Fallback
    /\ messages[4].content = <<"o", "k">>

\* C10: the number of /chat calls issued equals the number of user Messages
\* appended.
C10_OneCallPerSubmission ==
    nCalls = nUserAppends

\* after a failed request, a second one is outstanding and a submit made
\* meanwhile has been refused
C10_Witness ==
    /\ nCalls = 2
    /\ last.op = "sendMessage" /\ last.wasLoading
    /\ \E k \in DOMAIN messages : messages[k].content = Fallback

\* C11: the step in which the outstanding call resolves or rejects leaves the
\* client idle (busy flag and typing indicator off), also when the body is no
\* object and building the assistant Message throws; so the busy flag is set
\* only while a call is outstanding.
C11_CompletionReturnsToIdle ==
    /\ [](isLoading => inflight # <<>>)
    /\ [][last'.op = "settle" => (~isLoading' /\ ~isTyping')]_vars

\* a call has just resolved with a body that is no object, and the client is
\* idle
C11_Witness ==
    /\ last.op = "settle" /\ last.wasLoading
    /\ last.outcome.kind = "resolved" /\ last.outcome.data.tag = "null"
    /\ ~isLoading /\ ~isTyping
    /\ inflight = <<>>

\* the value of a decimal digit
DigitValue(c) == CHOOSE d \in 0..9 : Digit(d) = c

\* the number an id spells
RECURSIVE IdValue(_)
IdValue(s) ==
    IF s = <<>>
    THEN 0
    ELSE 10 * IdValue(SubSeq(s, 1, Len(s) - 1)) + DigitValue(s[Len(s)])

\* C12: in every reachable transcript the ids are pairwise distinct and
\* strictly increasing in append order.
C12_IdsStrictlyIncreasing ==
    \A i, j \in DOMAIN messages :
        i < j => /\ messages[i].id # messages[j].id
                 /\ IdValue(messages[i].id) < IdValue(messages[j].id)

\* the agent types the ChatRequest entity admits
AgentTypes == {"basic", "creative", "technical", "customer_support"}

\* C13: every ChatRequest on the wire has a message that is non-empty after
\* trimming and an agent_type among the four admitted.
C13_RequestsWellFormed ==
    \A k \in DOMAIN inflight :
        /\ Truthy(Trim(inflight[k].message))
        /\ inflight[k].agent_type \in AgentTypes

\* a padded text is on the wire, as typed
C13_Witness ==
    /\ Len(inflight) = 1
    /\ inflight[1].message = <<" ", "a", " ">>
    /\ inflight[1].agent_type = "basic"

\* C14: New Chat pressed while a request is outstanding leaves the busy flag,
\* the typing indicator, the input and the outstanding request as they were;
\* and when that request completes, its reply or the fallback is appended to
\* the cleared transcript.
C14_NewChatWhileBusy ==
    /\ [][(last'.op = "startNewChat" /\ isLoading)
            => /\ isLoading' = isLoading
               /\ isTyping' = isTyping
               /\ input' = input
               /\ inflight' = inflight]_vars
    /\ [][(last'.op = "settle" /\ messages = <<>>)
            => /\ Len(messages') = 1
               /\ messages'[1].role = "assistant"
               /\ messages'[1].content
                      \in {Fallback, last'.outcome.data.response}]_vars

\* the transcript was cleared while a request was outstanding, and the reply
\* of that request is now its only entry
C14_Witness ==
    /\ last.op = "settle" /\ last.wasLoading /\ last.len = 0
    /\ Len(messages) = 1
    /\ messages[1].role = "assistant"
    /\ messages[1].content = <<"o", "k">>

\* the number of entries of role r in the transcript
CountRole(r) == Cardinality({k \in DOMAIN messages : messages[k].role = r})

\* C15: in every reachable state the transcript alternates roles starting
\* with user (so each assistant Message directly follows a user Message), and
\* holds no more assistant Messages than user Messages.
C15_AlternatesFromUser ==
    /\ \A k \in DOMAIN messages :
           messages[k].role = IF k % 2 = 1 THEN "user" ELSE "assistant"
    /\ CountRole("assistant") <= CountRole("user")

\* C15, amended: no two neighbours of the transcript have the same role; a
\* non-empty transcript ends with the user Message of the outstanding request
\* while one is outstanding and with an assistant Message when the client is
\* idle; the assistant Messages outnumber the user Messages by at most one.
C15_Alternates ==
    /\ \A k \in DOMAIN messages :
           k < Len(messages) => messages[k].role # messages[k + 1].role
    /\ (isLoading /\ messages # <<>>)
           => /\ messages[Len(messages)].role = "user"
              /\ inflight # <<>>
              /\ messages[Len(messages)].content = inflight[1].message
    /\ (~isLoading /\ messages # <<>>)
           => messages[Len(messages)].role = "assistant"
    /\ CountRole("assistant") <= CountRole("user") + 1

\* a transcript that starts with the reply of a request issued before New
\* Chat, followed by a full exchange
C15_Witness ==
    /\ Len(messages) = 3
    /\ messages[1].role = "assistant"
    /\ messages[2].role = "user"
    /\ messages[3].role = "assistant"

\* C16: in every reachable state the typing indicator is on only while the
\* busy flag is set and a request is outstanding, and the step in which an
\* accepted submit sets the busy flag turns the indicator on.
C16_TypingOnlyWhileBusy ==
    /\ [](isTyping => (isLoading /\ inflight # <<>>))
    /\ [][(~isLoading /\ isLoading') => isTyping']_vars

\* a request has failed and the client is idle with the indicator off, after
\* the indicator was on for that request
C16_Witness ==
    /\ last.op = "settle" /\ last.wasLoading
    /\ last.outcome.kind = "rejected"
    /\ ~isLoading /\ ~isTyping

====
